---- MODULE Spec2Model ----
(***************************************************************************)
(* The memory tool of mcp-tools: the virtual path validator (pathLike),    *)
(* the path translators (toFsPath, toVirtualPath) and the six command      *)
(* handlers (view, create, str_replace, insert, delete, rename) acting on  *)
(* a file tree.                                                            *)
(*                                                                         *)
(* Strings are sequences of one-character strings, so that startsWith,     *)
(* includes, trim, split, join and String.prototype.replace are computed   *)
(* character by character as the JavaScript runtime computes them.  A real *)
(* path is a record [segs, trail]: its segments below "/" and whether the  *)
(* path string ends with a separator.                                      *)
(***************************************************************************)
EXTENDS Integers, Sequences, FiniteSets, TLC

VARIABLES fs, prior, cmd, res, touched, probe, run

vars == <<fs, prior, cmd, res, touched, probe, run>>

-----------------------------------------------------------------------------
(* Bounds of the model.                                                    *)

\* Longest suffix, in tokens, appended to a prefix to build a path probe.
MaxTok == 3

\* Deepest entry below the storage root, in segments.
MaxDepth == 2

\* Longest file content, in characters, followed in the tree of Spec.
MaxContent == 2

\* Longest file content, in characters, followed in SpecEdit.
MaxEdit == 5

-----------------------------------------------------------------------------
(* JavaScript string primitives.                                           *)

\* The value of an optional string parameter that was not supplied.
Undefined == <<"undefined">>

\* assert(x) on a string parameter: undefined and "" are falsy.
Truthy(s) == s # Undefined /\ s # <<>>

Min(a, b) == IF a <= b THEN a ELSE b

\* s.slice(i) with a 1-based index: the characters from position i on.
Drop(s, i) == SubSeq(s, i, Len(s))

\* s.startsWith(pre)
StartsWith(s, pre) ==
  /\ Len(s) >= Len(pre)
  /\ SubSeq(s, 1, Len(pre)) = pre

\* s.indexOf(sub) as a 1-based position; 0 when sub does not occur.
IndexOf(s, sub) ==
  LET hits == { i \in 1..(Len(s) - Len(sub) + 1) : SubSeq(s, i, i + Len(sub) - 1) = sub }
  IN IF hits = {} THEN 0 ELSE CHOOSE i \in hits : \A j \in hits : i <= j

\* s.includes(sub)
Includes(s, sub) == IndexOf(s, sub) # 0

WhiteSpace == {" ", "\t", "\n"}

\* s.trim(): white space removed at both ends.
Trim(s) ==
  LET keep == { i \in 1..Len(s) : s[i] \notin WhiteSpace }
  IN IF keep = {} THEN <<>>
     ELSE SubSeq(s, CHOOSE i \in keep : \A j \in keep : i <= j,
                    CHOOSE i \in keep : \A j \in keep : i >= j)

\* The hex letters, in both cases.
UpperLetters == <<"A", "B", "C", "D", "E", "F">>

LowerLetters == <<"a", "b", "c", "d", "e", "f">>

\* The /i flag of the regular expression: its letters (the hex digits of
\* the pattern) compare in lower case.
LowerChar(c) ==
  IF \E k \in 1..Len(UpperLetters) : UpperLetters[k] = c
  THEN LowerLetters[CHOOSE k \in 1..Len(UpperLetters) : UpperLetters[k] = c]
  ELSE c

ToLower(s) == [i \in 1..Len(s) |-> LowerChar(s[i])]

\* s.split(sep) for a one-character separator: always at least one piece.
RECURSIVE Split(_, _)
Split(s, sep) ==
  LET at == IndexOf(s, <<sep>>)
  IN IF at = 0 THEN <<s>>
     ELSE <<SubSeq(s, 1, at - 1)>> \o Split(Drop(s, at + 1), sep)

\* pieces.join(sep)
RECURSIVE Join(_, _)
Join(pieces, sep) ==
  IF Len(pieces) = 0 THEN <<>>
  ELSE IF Len(pieces) = 1 THEN pieces[1]
  ELSE pieces[1] \o <<sep>> \o Join(Tail(pieces), sep)

-----------------------------------------------------------------------------
(* node:path (posix): join, dirname, relative.                             *)

\* normalizeString: "" and "." segments are dropped, ".." removes the
\* segment before it, and is itself dropped at the top of an absolute path.
RECURSIVE NormalizeSegs(_, _)
NormalizeSegs(todo, done) ==
  IF Len(todo) = 0 THEN done
  ELSE LET s == todo[1]
       IN IF s = <<>> \/ s = <<".">> THEN NormalizeSegs(Tail(todo), done)
          ELSE IF s = <<".", ".">>
               THEN NormalizeSegs(Tail(todo),
                      IF Len(done) = 0 THEN done ELSE SubSeq(done, 1, Len(done) - 1))
          ELSE NormalizeSegs(Tail(todo), Append(done, s))

\* path.normalize of an absolute path string.
Normalize(str) ==
  LET segs == NormalizeSegs(Split(str, "/"), <<>>)
  IN [segs |-> segs,
      trail |-> Len(segs) > 0 /\ Len(str) > 0 /\ str[Len(str)] = "/"]

\* The string of a real path.
PathString(p) ==
  <<"/">> \o Join(p.segs, "/") \o (IF p.trail THEN <<"/">> ELSE <<>>)

\* path.join(base, rel): empty arguments are skipped, the rest are joined
\* with "/" and normalized.
PathJoin(base, rel) ==
  IF Len(rel) = 0 THEN Normalize(PathString(base))
  ELSE Normalize(PathString(base) \o <<"/">> \o rel)

\* path.dirname of a normalized absolute path: trailing separators are
\* ignored; the directory of "/" is "/".
Dirname(p) ==
  [segs |-> IF Len(p.segs) = 0 THEN <<>> ELSE SubSeq(p.segs, 1, Len(p.segs) - 1),
   trail |-> FALSE]

\* Length of the longest common prefix of two segment sequences.
CommonLen(a, b) ==
  LET same == { n \in 0..Min(Len(a), Len(b)) : SubSeq(a, 1, n) = SubSeq(b, 1, n) }
  IN CHOOSE n \in same : \A m \in same : n >= m

\* path.relative(from, to): ".." for every segment of from below the
\* common prefix, then the rest of to.
Relative(from, to) ==
  LET n == CommonLen(from.segs, to.segs)
      ups == [i \in 1..(Len(from.segs) - n) |-> <<".", ".">>]
  IN Join(ups \o Drop(to.segs, n + 1), "/")

-----------------------------------------------------------------------------
(* The storage root and the path translators.                              *)

\* os.homedir()
HomeDir == [segs |-> << <<"h">> >>, trail |-> FALSE]

\* const MEMORIES_ROOT = join(homedir(), ".mcp", "memories"), which is
\* "/h/.mcp/memories".
MEMORIES_ROOT ==
  [segs |-> HomeDir.segs \o << <<".", "m", "c", "p">>,
                               <<"m", "e", "m", "o", "r", "i", "e", "s">> >>,
   trail |-> FALSE]

\* The virtual root marker "/memories".
VirtualRoot == <<"/", "m", "e", "m", "o", "r", "i", "e", "s">>

\* virtualPath.replace(/^\/memories\/?/, "")
StripVirtualRoot(v) ==
  IF ~StartsWith(v, VirtualRoot) THEN v
  ELSE LET rest == Drop(v, Len(VirtualRoot) + 1)
       IN IF Len(rest) > 0 /\ rest[1] = "/" THEN Tail(rest) ELSE rest

toFsPath(virtualPath) == PathJoin(MEMORIES_ROOT, StripVirtualRoot(virtualPath))

toVirtualPath(fsPath) == VirtualRoot \o <<"/">> \o Relative(MEMORIES_ROOT, fsPath)

\* The three refinements of pathLike, applied to the trimmed string.
RootedRefine(p) == StartsWith(p, VirtualRoot)

\* A variant that refuses only "../".
DotDotRefineSlashOnly(p) == ~Includes(p, <<".", ".", "/">>)

DotDotRefine(p) == ~Includes(p, <<".", ".">>)

EncodedRefine(p) ==
  LET q == ToLower(p)
  IN /\ ~Includes(q, <<"%", "2", "e", "%", "2", "e">>)
     /\ ~Includes(q, <<"%", "2", "e", "%", "2", "f">>)
     /\ ~Includes(q, <<"%", "2", "e", "%", "5", "c">>)

\* pathLike: z.string().trim() and the three refinements.  The parsed value
\* handed to the handlers is the trimmed string.
pathLike(raw) ==
  LET p == Trim(raw)
  IN [ok |-> RootedRefine(p) /\ DotDotRefine(p) /\ EncodedRefine(p), value |-> p]

\* A real path is the storage root or a descendant of it.
InsideRoot(p) ==
  /\ Len(p.segs) >= Len(MEMORIES_ROOT.segs)
  /\ SubSeq(p.segs, 1, Len(MEMORIES_ROOT.segs)) = MEMORIES_ROOT.segs

-----------------------------------------------------------------------------
(* The file tree and the filesystem calls the tool makes.  fs maps the     *)
(* segments of every existing absolute path to its entry.                  *)

DirEntry == [kind |-> "dir", content |-> <<>>]

FileEntry(text) == [kind |-> "file", content |-> text]

\* A call made by a handler: the primitive and the real path it was given.
Call(op, p) == [op |-> op, path |-> p]

IsPrefix(a, b) == Len(a) <= Len(b) /\ SubSeq(b, 1, Len(a)) = a

IsProperPrefix(a, b) == Len(a) < Len(b) /\ SubSeq(b, 1, Len(a)) = a

\* Restriction of a tree to a set of paths.
Restrict(f, keep) == [q \in keep |-> f[q]]

\* The stored tree: the entries strictly below the storage root.
StoredTree(f) ==
  Restrict(f, { q \in DOMAIN f : IsProperPrefix(MEMORIES_ROOT.segs, q) })

IsDir(f, segs) == segs \in DOMAIN f /\ f[segs].kind = "dir"

IsFile(f, segs) == segs \in DOMAIN f /\ f[segs].kind = "file"

Parent(segs) == SubSeq(segs, 1, Len(segs) - 1)

\* access(fsPath).then(() => true).catch(() => false): a path with a
\* trailing separator resolves only to a directory.
pathExists(f, p) == p.segs \in DOMAIN f /\ (p.trail => IsDir(f, p.segs))

\* (await getStats(fsPath)).isDirectory()
isDirectory(f, p) == IsDir(f, p.segs)

\* A variant that creates the last component only, and nothing when the
\* directory above it is missing.
MkdirOne(f, p) ==
  IF p.segs \in DOMAIN f \/ ~IsDir(f, Parent(p.segs)) THEN f
  ELSE [q \in DOMAIN f \cup {p.segs} |-> IF q \in DOMAIN f THEN f[q] ELSE DirEntry]

\* mkdir(p, { recursive: true }): fails when a component is a file, else
\* creates every missing component; an existing directory is left alone.
MkdirBlocked(f, p) == \E n \in 1..Len(p.segs) : IsFile(f, SubSeq(p.segs, 1, n))

MkdirP(f, p) ==
  LET missing == { SubSeq(p.segs, 1, n) : n \in 1..Len(p.segs) } \ DOMAIN f
  IN [q \in DOMAIN f \cup missing |-> IF q \in DOMAIN f THEN f[q] ELSE DirEntry]

\* Bun.write(fsPath, content) fails on a path with a trailing separator, on
\* a directory, and when the parent is no directory.
WriteBlocked(f, p) ==
  \/ p.trail
  \/ Len(p.segs) = 0
  \/ IsDir(f, p.segs)
  \/ ~IsDir(f, Parent(p.segs))

\* A variant that appends to a file that is there.
BunWriteAppend(f, p, content) ==
  [q \in DOMAIN f \cup {p.segs} |->
     IF q # p.segs THEN f[q]
     ELSE IF IsFile(f, q) THEN FileEntry(f[q].content \o content)
     ELSE FileEntry(content)]

BunWrite(f, p, content) ==
  [q \in DOMAIN f \cup {p.segs} |-> IF q = p.segs THEN FileEntry(content) ELSE f[q]]

\* A variant that removes a file or an empty directory only.
RmEmpty(f, p) ==
  IF \E q \in DOMAIN f : IsProperPrefix(p.segs, q) THEN f
  ELSE Restrict(f, DOMAIN f \ {p.segs})

\* rm(fsPath, { recursive: true, force: true })
\* A variant that removes the directory that holds p.
RmParent(f, p) == Restrict(f, { q \in DOMAIN f : ~IsPrefix(Parent(p.segs), q) })

Rm(f, p) == Restrict(f, { q \in DOMAIN f : ~IsPrefix(p.segs, q) })

\* rename(2): the cases in which the system call fails.
RenameBlocked(f, old, new) ==
  \/ ~pathExists(f, old)
  \/ Len(new.segs) = 0
  \/ ~IsDir(f, Parent(new.segs))
  \/ IsProperPrefix(old.segs, new.segs)
  \/ new.trail /\ IsFile(f, old.segs)
  \/ /\ old.segs # new.segs
     /\ new.segs \in DOMAIN f
     /\ \/ f[old.segs].kind # f[new.segs].kind
        \/ /\ IsDir(f, new.segs)
           /\ \E q \in DOMAIN f : IsProperPrefix(new.segs, q)

\* A variant that leaves the source in place.
FsRenameKeepSource(f, old, new) ==
  IF old.segs = new.segs THEN f
  ELSE LET moved == { q \in DOMAIN f : IsPrefix(old.segs, q) }
           rest == { q \in DOMAIN f : ~IsPrefix(new.segs, q) }
           To(q) == new.segs \o Drop(q, Len(old.segs) + 1)
           From(r) == CHOOSE q \in moved : To(q) = r
       IN [r \in rest \cup { To(q) : q \in moved } |->
             IF r \in rest THEN f[r] ELSE f[From(r)]]

\* rename(2) when it succeeds: the source and all below it move to the
\* destination, replacing what was there; renaming a path to itself does
\* nothing.
FsRename(f, old, new) ==
  IF old.segs = new.segs THEN f
  ELSE LET moved == { q \in DOMAIN f : IsPrefix(old.segs, q) }
           rest == { q \in DOMAIN f : ~IsPrefix(old.segs, q) /\ ~IsPrefix(new.segs, q) }
           To(q) == new.segs \o Drop(q, Len(old.segs) + 1)
           From(r) == CHOOSE q \in moved : To(q) = r
       IN [r \in rest \cup { To(q) : q \in moved } |->
             IF r \in rest THEN f[r] ELSE f[From(r)]]

\* The tree before the first call: "/" and the home directory.
InitFs == [q \in {<<>>, HomeDir.segs} |-> DirEntry]

-----------------------------------------------------------------------------
(* String.prototype.replace with a string pattern.                         *)

\* GetSubstitution: in the replacement text "$$" stands for "$", "$&" for
\* the matched text, "$`" for the text before the match and "$'" for the
\* text after it; any other "$" is kept as it is (a string pattern has no
\* capture groups).
RECURSIVE GetSubstitution(_, _, _, _)
GetSubstitution(repl, matched, before, after) ==
  IF Len(repl) = 0 THEN <<>>
  ELSE IF repl[1] = "$" /\ Len(repl) >= 2 /\ repl[2] \in {"$", "&", "`", "'"}
       THEN (CASE repl[2] = "$" -> <<"$">>
               [] repl[2] = "&" -> matched
               [] repl[2] = "`" -> before
               [] repl[2] = "'" -> after)
            \o GetSubstitution(Drop(repl, 3), matched, before, after)
       ELSE <<repl[1]>> \o GetSubstitution(Tail(repl), matched, before, after)

\* content.replace(old_str, new_str): only the first occurrence is replaced.
JsReplace(content, old_str, new_str) ==
  LET at == IndexOf(content, old_str)
  IN IF at = 0 THEN content
     ELSE LET before == SubSeq(content, 1, at - 1)
              after == Drop(content, at + Len(old_str))
          IN before \o GetSubstitution(new_str, old_str, before, after) \o after

\* lines.splice(insert_line - 1, 0, insert_text): a start index beyond the
\* end is clamped to the length of the array.
Splice(lines, insert_line, insert_text) ==
  LET at == Min(insert_line - 1, Len(lines))
  IN SubSeq(lines, 1, at) \o <<insert_text>> \o Drop(lines, at + 1)

Digits == <<"0", "1", "2", "3", "4", "5", "6", "7", "8", "9">>

\* `${n}` for a natural number.
RECURSIVE NumStr(_)
NumStr(n) ==
  IF n < 10 THEN <<Digits[n + 1]>>
  ELSE NumStr(n \div 10) \o <<Digits[(n % 10) + 1]>>

\* A variant that leaves out the line numbered end.
SliceExclusive(lines, start, end) == SubSeq(lines, start, Min(end - 1, Len(lines)))

\* lines.slice(start - 1, end)
Slice(lines, start, end) == SubSeq(lines, start, Min(end, Len(lines)))

-----------------------------------------------------------------------------
(* Outcomes of a handler: the tree it leaves, the result string or the     *)
(* failure, and the filesystem calls it made.                              *)

Done(f, out, calls) ==
  [fs |-> f, ok |-> TRUE, err |-> "none", out |-> out, touched |-> calls]

Failed(f, err, out, calls) ==
  [fs |-> f, ok |-> FALSE, err |-> err, out |-> out, touched |-> calls]

\* The text of a message: a fixed part followed by a path or a string.
Msg(text, arg) == <<text>> \o arg

\* const writeFile = async (fsPath, content) => { mkdir(dirname); Bun.write }
writeFile(f, fsPath, content, out, calls) ==
  LET mk == Call("mkdir", Dirname(fsPath))
      wr == Call("write", fsPath)
  IN IF MkdirBlocked(f, Dirname(fsPath))
     THEN Failed(f, "IOFailure", Msg("mkdir: ", PathString(Dirname(fsPath))),
                 calls \cup {mk})
     ELSE LET g == MkdirP(f, Dirname(fsPath))
          IN IF WriteBlocked(g, fsPath)
             THEN Failed(g, "IOFailure", Msg("write: ", PathString(fsPath)),
                         calls \cup {mk, wr})
             ELSE Done(BunWrite(g, fsPath, content), out, calls \cup {mk, wr})

-----------------------------------------------------------------------------
(* Recursive directory listing.                                            *)

\* The names readdir returns come in the directory's own order; the model
\* fixes it as the order of the characters below, compared segment-wise.
CharOrder == <<".", "/", "a", "d", "m", "x">>

Rank(c) ==
  IF \E k \in 1..Len(CharOrder) : CharOrder[k] = c
  THEN CHOOSE k \in 1..Len(CharOrder) : CharOrder[k] = c
  ELSE Len(CharOrder) + 1

RECURSIVE NameBefore(_, _)
NameBefore(a, b) ==
  IF Len(a) = 0 THEN Len(b) > 0
  ELSE IF Len(b) = 0 THEN FALSE
  ELSE IF a[1] = b[1] THEN NameBefore(Tail(a), Tail(b))
  ELSE Rank(a[1]) < Rank(b[1])

\* readdir(currentPath, { withFileTypes: true }): the entries directly
\* below a directory.
Children(f, dir) == { q \in DOMAIN f : Len(q) = Len(dir) + 1 /\ IsPrefix(dir, q) }

RECURSIVE Ordered(_)
Ordered(paths) ==
  IF paths = {} THEN <<>>
  ELSE LET first == CHOOSE q \in paths :
                      \A r \in paths \ {q} : NameBefore(q[Len(q)], r[Len(r)])
       IN <<first>> \o Ordered(paths \ {first})

\* walk: one line for each item, a directory's line followed at once by the
\* lines of what is below it.
RECURSIVE WalkItems(_, _)
WalkItems(f, items) ==
  IF Len(items) = 0 THEN <<>>
  ELSE LET fullPath == [segs |-> items[1], trail |-> FALSE]
           suffix == IF IsDir(f, items[1]) THEN <<"/">> ELSE <<>>
           below == IF IsDir(f, items[1])
                    THEN WalkItems(f, Ordered(Children(f, items[1])))
                    ELSE <<>>
       IN <<toVirtualPath(fullPath) \o suffix>> \o below \o WalkItems(f, Tail(items))

\* A variant that does not go into the directories it meets.
walkShallow(f, currentPath) ==
  LET items == Ordered(Children(f, currentPath.segs))
  IN IF Len(items) = 0 THEN <<>>
     ELSE [i \in 1..Len(items) |->
             toVirtualPath([segs |-> items[i], trail |-> FALSE])
               \o (IF IsDir(f, items[i]) THEN <<"/">> ELSE <<>>)]

walk(f, currentPath) == WalkItems(f, Ordered(Children(f, currentPath.segs)))

\* The directories the walk reads.
WalkCalls(f, fsPath) ==
  { Call("readdir", [segs |-> q, trail |-> FALSE]) :
      q \in { r \in DOMAIN f : IsPrefix(fsPath.segs, r) /\ IsDir(f, r) } }

\* A variant that removes a directory it finds empty.
listDirectoryPruning(f, fsPath, calls) ==
  IF Len(walk(f, fsPath)) = 0
  THEN Done(Rm(f, fsPath), <<"No files found.">>,
            calls \cup {Call("access", fsPath), Call("rm", fsPath)})
  ELSE Done(f, Join(walk(f, fsPath), "\n"),
            calls \cup {Call("access", fsPath)} \cup WalkCalls(f, fsPath))

\* A variant that joins whatever the walk found, nothing included.
listDirectoryJoined(f, fsPath, calls) ==
  Done(f, Join(walk(f, fsPath), "\n"),
       calls \cup {Call("access", fsPath)} \cup WalkCalls(f, fsPath))

listDirectory(f, fsPath, calls) ==
  IF ~pathExists(f, fsPath)
  THEN Done(f, <<"Directory is empty or does not exist.">>,
            calls \cup {Call("access", fsPath)})
  ELSE LET entries == walk(f, fsPath)
           all == calls \cup {Call("access", fsPath)} \cup WalkCalls(f, fsPath)
       IN IF Len(entries) > 0
          THEN Done(f, Join(entries, "\n"), all)
          ELSE Done(f, <<"No files found.">>, all)

-----------------------------------------------------------------------------
(* Command handlers.  f is the tree when the handler starts.               *)

handleView(f, path, view_range) ==
  IF ~Truthy(path)
  THEN Failed(f, "MissingArgument", <<"path is required for view command">>, {})
  ELSE
    LET fsPath == toFsPath(path)
        c1 == {Call("access", fsPath)}
        c2 == c1 \cup {Call("stat", fsPath)}
        c3 == c2 \cup {Call("read", fsPath)}
    IN IF ~pathExists(f, fsPath)
       THEN Failed(f, "NotFound", Msg("Path does not exist: ", path), c1)
       ELSE IF isDirectory(f, fsPath) THEN listDirectory(f, fsPath, c2)
       ELSE LET content == f[fsPath.segs].content
            IN IF view_range # <<>>
               THEN Done(f, Join(Slice(Split(content, "\n"),
                                       view_range[1], view_range[2]), "\n"), c3)
               ELSE Done(f, content, c3)

handleCreate(f, path, file_text) ==
  IF ~Truthy(path)
  THEN Failed(f, "MissingArgument", <<"path is required for create command">>, {})
  ELSE writeFile(f, toFsPath(path), IF Truthy(file_text) THEN file_text ELSE <<>>,
                 Msg("Created: ", path), {})

handleStrReplace(f, path, old_str, new_str) ==
  IF ~Truthy(path)
  THEN Failed(f, "MissingArgument", <<"path is required for str_replace command">>, {})
  ELSE IF ~Truthy(old_str)
  THEN Failed(f, "MissingArgument", <<"old_str is required for str_replace command">>, {})
  ELSE IF ~Truthy(new_str)
  THEN Failed(f, "MissingArgument", <<"new_str is required for str_replace command">>, {})
  ELSE
    LET fsPath == toFsPath(path)
        c1 == {Call("access", fsPath)}
        c2 == c1 \cup {Call("read", fsPath)}
    IN IF ~pathExists(f, fsPath)
       THEN Failed(f, "NotFound", Msg("File does not exist: ", path), c1)
       ELSE IF isDirectory(f, fsPath)
       THEN Failed(f, "IOFailure", Msg("read: ", PathString(fsPath)), c2)
       ELSE LET content == f[fsPath.segs].content
            IN IF ~Includes(content, old_str)
               THEN Failed(f, "NotMatched", Msg("String not found in file: ", old_str), c2)
               ELSE writeFile(f, fsPath, JsReplace(content, old_str, new_str),
                              Msg("Replaced in ", path), c2)

handleInsert(f, path, insert_line, insert_text) ==
  IF ~Truthy(path)
  THEN Failed(f, "MissingArgument", <<"path is required for insert command">>, {})
  ELSE IF insert_line = 0
  THEN Failed(f, "MissingArgument", <<"insert_line is required for insert command">>, {})
  ELSE IF ~Truthy(insert_text)
  THEN Failed(f, "MissingArgument", <<"insert_text is required for insert command">>, {})
  ELSE
    LET fsPath == toFsPath(path)
        c1 == {Call("access", fsPath)}
        c2 == c1 \cup {Call("read", fsPath)}
    IN IF ~pathExists(f, fsPath)
       THEN Failed(f, "NotFound", Msg("File does not exist: ", path), c1)
       ELSE IF isDirectory(f, fsPath)
       THEN Failed(f, "IOFailure", Msg("read: ", PathString(fsPath)), c2)
       ELSE LET lines == Split(f[fsPath.segs].content, "\n")
            IN writeFile(f, fsPath, Join(Splice(lines, insert_line, insert_text), "\n"),
                         Msg("Inserted at line ",
                             NumStr(insert_line) \o <<" in ">> \o path), c2)

\* A variant that refuses to remove the storage root.
handleDeleteBelowRoot(f, path) ==
  IF Truthy(path) /\ toFsPath(path).segs = MEMORIES_ROOT.segs
  THEN Failed(f, "ValidationError", <<"Path must start with /memories">>, {})
  ELSE IF ~Truthy(path)
  THEN Failed(f, "MissingArgument", <<"path is required for delete command">>, {})
  ELSE IF ~pathExists(f, toFsPath(path))
  THEN Failed(f, "NotFound", Msg("Path does not exist: ", path), {Call("access", toFsPath(path))})
  ELSE Done(Rm(f, toFsPath(path)),
            Msg(IF isDirectory(f, toFsPath(path)) THEN "Deleted directory: "
                                                  ELSE "Deleted file: ", path),
            {Call("access", toFsPath(path)), Call("stat", toFsPath(path)),
             Call("rm", toFsPath(path))})

handleDelete(f, path) ==
  IF ~Truthy(path)
  THEN Failed(f, "MissingArgument", <<"path is required for delete command">>, {})
  ELSE
    LET fsPath == toFsPath(path)
        c1 == {Call("access", fsPath)}
        c3 == c1 \cup {Call("stat", fsPath), Call("rm", fsPath)}
    IN IF ~pathExists(f, fsPath)
       THEN Failed(f, "NotFound", Msg("Path does not exist: ", path), c1)
       ELSE Done(Rm(f, fsPath),
                 Msg(IF isDirectory(f, fsPath) THEN "Deleted directory: "
                                               ELSE "Deleted file: ", path), c3)

handleRename(f, old_path, new_path) ==
  IF ~Truthy(old_path)
  THEN Failed(f, "MissingArgument", <<"old_path is required for rename command">>, {})
  ELSE IF ~Truthy(new_path)
  THEN Failed(f, "MissingArgument", <<"new_path is required for rename command">>, {})
  ELSE
    LET oldFsPath == toFsPath(old_path)
        newFsPath == toFsPath(new_path)
        c1 == {Call("access", oldFsPath)}
        c2 == c1 \cup {Call("mkdir", Dirname(newFsPath))}
        c3 == c2 \cup {Call("rename", oldFsPath), Call("rename", newFsPath)}
    IN IF ~pathExists(f, oldFsPath)
       THEN Failed(f, "NotFound", Msg("Source path does not exist: ", old_path), c1)
       ELSE IF MkdirBlocked(f, Dirname(newFsPath))
       THEN Failed(f, "IOFailure", Msg("mkdir: ", PathString(Dirname(newFsPath))), c2)
       ELSE LET g == MkdirP(f, Dirname(newFsPath))
            IN IF RenameBlocked(g, oldFsPath, newFsPath)
               THEN Failed(g, "IOFailure", Msg("rename: ", PathString(newFsPath)), c3)
               ELSE Done(FsRename(g, oldFsPath, newFsPath),
                         Msg("Renamed: ", old_path \o <<" -> ">> \o new_path), c3)

\* export default async function memory(params): the storage root is
\* ensured to exist, then the command is dispatched.
\* The switch of memory: g is the tree after the storage root was ensured.
Dispatch(g, params) ==
  CASE params.command = "view" -> handleView(g, params.path, params.view_range)
    [] params.command = "create" -> handleCreate(g, params.path, params.file_text)
    [] params.command = "str_replace" ->
         handleStrReplace(g, params.path, params.old_str, params.new_str)
    [] params.command = "insert" ->
         handleInsert(g, params.path, params.insert_line, params.insert_text)
    [] params.command = "delete" -> handleDelete(g, params.path)
    [] params.command = "rename" -> handleRename(g, params.old_path, params.new_path)

\* The outcome h of a call, with whether a handler was started and the
\* tree it, or else the call, started from.
Outcome(h, ran, start) ==
  [fs |-> h.fs, ok |-> h.ok, err |-> h.err, out |-> h.out,
   touched |-> h.touched, ran |-> ran, start |-> start]

memory(f, params) ==
  IF MkdirBlocked(f, MEMORIES_ROOT)
  THEN Outcome(Failed(f, "IOFailure", Msg("mkdir: ", PathString(MEMORIES_ROOT)), {}),
               FALSE, f)
  ELSE Outcome(Dispatch(MkdirP(f, MEMORIES_ROOT), params),
               TRUE, MkdirP(f, MEMORIES_ROOT))

-----------------------------------------------------------------------------
(* The state machine: one call of the tool at a time.  A call runs to its  *)
(* end in one step; its result is then handed to the caller, and the tool  *)
(* keeps nothing of the call but the file tree.                            *)
(*   fs       the file tree                                                *)
(*   prior    the file tree when the call being answered started           *)
(*   cmd      the parameters of the call being answered, as the caller     *)
(*            sent them; NoParams between calls                            *)
(*   res      how the call being answered ended, whether a handler was     *)
(*            started for it (ran) and the tree that handler started from  *)
(*            (start)                                                      *)
(*   touched  the filesystem calls the handler of that call made           *)
(*   probe    a path under translation (used by SpecPath only)             *)
(*   run      the calls in progress when calls overlap (used by SpecSteps  *)
(*            only, where fs is the tree they share)                       *)

NoParams ==
  [command |-> "none", path |-> Undefined, view_range |-> <<>>,
   file_text |-> Undefined, old_str |-> Undefined, new_str |-> Undefined,
   insert_line |-> 0, insert_text |-> Undefined,
   old_path |-> Undefined, new_path |-> Undefined]

NoPath == [segs |-> <<>>, trail |-> FALSE]

\* A path string on its way through the validator and the translators:
\*   stage "input"     raw is the string a caller sends
\*   stage "accepted"  pathLike parsed raw into value
\*   stage "rejected"  pathLike refused raw
\*   stage "real"      real = toFsPath(value)
\*   stage "virtual"   virt = toVirtualPath(real)
\*   stage "direct"    real = toFsPath(raw), with no validation before it
ProbeOf(stage, raw, value, real, virt) ==
  [stage |-> stage, raw |-> raw, value |-> value, real |-> real, virt |-> virt]

NoProbe == ProbeOf("none", <<>>, <<>>, NoPath, <<>>)

\* The calls that may be in progress at once.
Slots == {1, 2, 3}

\* A call in progress, between two awaits:
\*   pc       the filesystem call it awaits next; "idle" when the slot is
\*            free, "done" when the call has ended
\*   cmd      the parameters, parsed by the schema
\*   isDir    what stat answered
\*   content  what the read returned
\*   cur      the directory walk reads next
\*   pending  the readdir items walk has still to visit, innermost first
\*   out      how the call ended, as in res
\*   ops      the filesystem calls the call has made, in order
\*   own      the lines, or the content, the reads of this call returned
\*   lost     another call removed the target after this call saw it
IdleRun ==
  [pc |-> "idle", cmd |-> NoParams, isDir |-> FALSE, content |-> <<>>,
   cur |-> NoPath, pending |-> <<>>,
   out |-> [ok |-> TRUE, err |-> "none", out |-> <<>>],
   ops |-> <<>>, own |-> <<>>, lost |-> FALSE]

NoRuns == [p \in Slots |-> [call |-> IdleRun, entries |-> <<>>]]

\* The schema layer: every supplied path goes through pathLike; the handler
\* receives the parsed (trimmed) value, or the call is refused.
Supplied(params) ==
  { v \in {params.path, params.old_path, params.new_path} : v # Undefined }

Parsed(v) == IF v = Undefined THEN v ELSE pathLike(v).value

\* view_range: z.tuple([z.number().int().min(1), z.number().int().min(1)])
\* .optional(); <<>> stands for a range that was not supplied.
RangeSchema(view_range) ==
  view_range # <<>> => (view_range[1] >= 1 /\ view_range[2] >= 1)

Call_(f, params) ==
  IF \E v \in Supplied(params) : ~pathLike(v).ok
  THEN Outcome(Failed(f, "ValidationError", <<"Path must start with /memories">>, {}),
               FALSE, f)
  ELSE IF ~RangeSchema(params.view_range)
  THEN Outcome(Failed(f, "ValidationError",
                      <<"Number must be greater than or equal to 1">>, {}),
               FALSE, f)
  ELSE memory(f, [params EXCEPT !.path = Parsed(@),
                                !.old_path = Parsed(@),
                                !.new_path = Parsed(@)])

\* The trees the model follows: contents of at most cap characters, at
\* most MaxDepth levels below the storage root.
TreeBounded(f, cap) ==
  \A q \in DOMAIN f :
    /\ Len(f[q].content) <= cap
    /\ Len(q) <= Len(MEMORIES_ROOT.segs) + MaxDepth

NoResult == [ok |-> TRUE, err |-> "none", out |-> <<>>, ran |-> FALSE, start |-> <<>>]

Idle == cmd.command = "none"

\* One call of the tool, from the request to the result; cap bounds the
\* file contents the model follows.
Invoke(params, cap) ==
  /\ \E r \in {Call_(fs, params)} :
       /\ TreeBounded(r.fs, cap)
       /\ fs' = r.fs
       /\ prior' = fs
       /\ cmd' = params
       /\ res' = [ok |-> r.ok, err |-> r.err, out |-> r.out,
                  ran |-> r.ran, start |-> r.start]
       /\ touched' = r.touched
  /\ UNCHANGED <<probe, run>>

\* The result string or the failure is handed to the caller.
Return ==
  /\ ~Idle
  /\ cmd' = NoParams
  /\ res' = NoResult
  /\ touched' = {}
  /\ prior' = fs
  /\ UNCHANGED <<fs, probe, run>>

\* "/memories" followed by the given characters.
V(tail) == VirtualRoot \o tail

\* The calls of Spec: many paths, short contents.
TreeInputs ==
  [paths |-> { Undefined,
               V(<<>>),
               V(<<"/">>),
               V(<<"/", "a">>),
               V(<<"/", "d">>),
               V(<<"/", "d", "/", "a">>),
               V(<<"a">>),
               V(<<"/", "a", "/">>),
               <<" ">> \o V(<<"/", "d">>),
               V(<<"/", ".", ".", "/", "x">>) },
   ranges |-> { <<>>, <<0, 1>>, <<1, 1>>, <<1, 2>>, <<2, 1>>, <<2, 3>> },
   file_texts |-> { Undefined, <<>>, <<"X">> },
   old_strs |-> { Undefined, <<>>, <<"X">> },
   new_strs |-> { Undefined, <<>>, <<"Y">> },
   lines |-> { 0, 1, 2 },
   insert_texts |-> { Undefined, <<>>, <<"Y">> },
   cap |-> MaxContent]

\* The calls of SpecEdit: one file, longer contents, replacement texts that
\* hold "$" patterns.
EditInputs ==
  [paths |-> { V(<<"/", "a">>) },
   ranges |-> { <<>>, <<1, 1>>, <<1, 2>>, <<2, 1>>, <<2, 3>>, <<3, 3>> },
   file_texts |-> { Undefined, <<>>, <<"X", "b", "X">>, <<"X", "\n", "b">> },
   old_strs |-> { <<"X">>, <<"b">>, <<"X", "b">> },
   new_strs |-> { <<>>, <<"Y">>, <<"$", "$">>, <<"$", "&">> },
   lines |-> { 1, 2, 3 },
   insert_texts |-> { <<>>, <<"N">> },
   cap |-> MaxEdit]

View(U) ==
  /\ Idle
  /\ \E path \in U.paths, view_range \in U.ranges :
       Invoke([NoParams EXCEPT !.command = "view", !.path = path,
                            !.view_range = view_range], U.cap)

Create(U) ==
  /\ Idle
  /\ \E path \in U.paths, file_text \in U.file_texts :
       Invoke([NoParams EXCEPT !.command = "create", !.path = path,
                            !.file_text = file_text], U.cap)

StrReplace(U) ==
  /\ Idle
  /\ \E path \in U.paths, old_str \in U.old_strs, new_str \in U.new_strs :
       Invoke([NoParams EXCEPT !.command = "str_replace", !.path = path,
                            !.old_str = old_str, !.new_str = new_str], U.cap)

Insert(U) ==
  /\ Idle
  /\ \E path \in U.paths, insert_line \in U.lines, insert_text \in U.insert_texts :
       Invoke([NoParams EXCEPT !.command = "insert", !.path = path,
                            !.insert_line = insert_line,
                            !.insert_text = insert_text], U.cap)

Delete(U) ==
  /\ Idle
  /\ \E path \in U.paths :
       Invoke([NoParams EXCEPT !.command = "delete", !.path = path], U.cap)

Rename(U) ==
  /\ Idle
  /\ \E old_path \in U.paths, new_path \in U.paths :
       Invoke([NoParams EXCEPT !.command = "rename", !.old_path = old_path,
                            !.new_path = new_path], U.cap)

Init ==
  /\ fs = InitFs
  /\ prior = InitFs
  /\ cmd = NoParams
  /\ res = NoResult
  /\ touched = {}
  /\ probe = NoProbe
  /\ run = NoRuns

Next ==
  \/ View(TreeInputs)
  \/ Create(TreeInputs)
  \/ StrReplace(TreeInputs)
  \/ Insert(TreeInputs)
  \/ Delete(TreeInputs)
  \/ Rename(TreeInputs)
  \/ Return

Spec == Init /\ [][Next]_vars

NextEdit ==
  \/ View(EditInputs)
  \/ Create(EditInputs)
  \/ StrReplace(EditInputs)
  \/ Insert(EditInputs)
  \/ Delete(EditInputs)
  \/ Rename(EditInputs)
  \/ Return

SpecEdit == Init /\ [][NextEdit]_vars

-----------------------------------------------------------------------------
(* SpecPath: the validator and the translators on their own, applied to    *)
(* path strings built from a prefix and at most MaxTok tokens.             *)

PathPrefixes ==
  { <<>>,
    VirtualRoot,
    V(<<"/">>),
    <<" ">> \o V(<<"/">>),
    <<"/", "m", "e", "m", "o", "r", "i", "e">> }

PathTokens ==
  { <<"/">>, <<".">>, <<"a">>, <<" ">>, <<"\\">>,
    <<"%", "2", "e">>, <<"%", "2", "E">>, <<"%", "2", "f">>, <<"%", "5", "C">> }

RECURSIVE TokenSeqs(_)
TokenSeqs(n) ==
  IF n = 0 THEN { <<>> }
  ELSE LET shorter == TokenSeqs(n - 1)
       IN shorter \cup { t \o s : t \in PathTokens, s \in shorter }

PathInputs == { pre \o suf : pre \in PathPrefixes, suf \in TokenSeqs(MaxTok) }

InitPath ==
  /\ fs = InitFs
  /\ prior = InitFs
  /\ cmd = NoParams
  /\ res = NoResult
  /\ touched = {}
  /\ probe \in { ProbeOf("input", raw, <<>>, NoPath, <<>>) : raw \in PathInputs }
  /\ run = NoRuns

\* The schema layer parses the string with pathLike.
Validate ==
  /\ probe.stage = "input"
  /\ probe' = [probe EXCEPT !.stage = IF pathLike(probe.raw).ok THEN "accepted"
                                                               ELSE "rejected",
                            !.value = pathLike(probe.raw).value]
  /\ UNCHANGED <<fs, prior, cmd, res, touched, run>>

\* A handler translates the parsed path it was given.
Translate ==
  /\ probe.stage = "accepted"
  /\ probe' = [probe EXCEPT !.stage = "real", !.real = toFsPath(probe.value)]
  /\ UNCHANGED <<fs, prior, cmd, res, touched, run>>

\* The listing translates a real path back.
BackTranslate ==
  /\ probe.stage = "real"
  /\ probe' = [probe EXCEPT !.stage = "virtual", !.virt = toVirtualPath(probe.real)]
  /\ UNCHANGED <<fs, prior, cmd, res, touched, run>>

\* toFsPath called on a string the validator has not seen.
TranslateDirect ==
  /\ probe.stage = "input"
  /\ probe' = [probe EXCEPT !.stage = "direct", !.real = toFsPath(probe.raw)]
  /\ UNCHANGED <<fs, prior, cmd, res, touched, run>>

NextPath == Validate \/ Translate \/ BackTranslate \/ TranslateDirect

SpecPath == InitPath /\ [][NextPath]_vars

-----------------------------------------------------------------------------
(* Claims on the validator and the translators (SpecPath).                 *)

DotDot == <<".", ".">>

\* The validator let the probed string through.
Accepted == probe.stage \in {"accepted", "real", "virtual"}

\* C2, as stated: the validator rejects every path that does not start with
\* "/memories" and every path that contains ".."; so each path it lets
\* through starts with "/memories" and holds no "..".
C2_AsStated ==
  Accepted => StartsWith(probe.raw, VirtualRoot) /\ ~Includes(probe.raw, DotDot)

\* C2, amended: the validator rejects every path that, once the white space
\* around it is trimmed, does not start with "/memories", and every path
\* that contains ".."; only a path it let through is translated to a real
\* path.
C2_Validator ==
  /\ Accepted =>
       StartsWith(Trim(probe.raw), VirtualRoot) /\ ~Includes(probe.raw, DotDot)
  /\ probe.stage = "rejected" => probe.real = NoPath

\* A path that starts with "/memories" and holds ".." was rejected.
C2_Witness ==
  /\ probe.stage = "rejected"
  /\ StartsWith(probe.raw, VirtualRoot)
  /\ Includes(probe.raw, DotDot)

\* Percent-decoding of the three characters of a traversal sequence.
RECURSIVE PercentDecode(_)
PercentDecode(s) ==
  IF Len(s) = 0 THEN <<>>
  ELSE IF Len(s) >= 3 /\ s[1] = "%" /\ ToLower(SubSeq(s, 2, 3)) = <<"2", "e">>
       THEN <<".">> \o PercentDecode(Drop(s, 4))
  ELSE IF Len(s) >= 3 /\ s[1] = "%" /\ ToLower(SubSeq(s, 2, 3)) = <<"2", "f">>
       THEN <<"/">> \o PercentDecode(Drop(s, 4))
  ELSE IF Len(s) >= 3 /\ s[1] = "%" /\ ToLower(SubSeq(s, 2, 3)) = <<"5", "c">>
       THEN <<"\\">> \o PercentDecode(Drop(s, 4))
  ELSE <<s[1]>> \o PercentDecode(Tail(s))

Traversals == { <<".", ".">>, <<".", ".", "/">>, <<".", ".", "\\">> }

\* Some part of the string is a percent-encoding of "..", "../" or "..\":
\* it holds an encoded character and decodes to one of the three.
HasEncodedTraversal(p) ==
  \E i \in 1..Len(p), j \in 1..Len(p) :
    /\ i <= j
    /\ Includes(SubSeq(p, i, j), <<"%">>)
    /\ PercentDecode(SubSeq(p, i, j)) \in Traversals

\* C3: the validator rejects every path that contains a percent-encoded
\* traversal sequence, in either letter case of the hex digits.
C3_AsStated == Accepted => ~HasEncodedTraversal(probe.raw)

\* C4: toFsPath on any string, validated or not, returns the storage root
\* or a descendant of it.
C4_AsStated == probe.stage = "direct" => InsideRoot(probe.real)

\* A virtual path without its trailing separator and its empty and "."
\* segments.
VirtualNormalize(v) == <<"/">> \o Join(NormalizeSegs(Split(v, "/"), <<>>), "/")

\* C5: for every path the validator lets through, toVirtualPath(toFsPath(p))
\* equals p up to trailing separators and redundant segments.
C5_AsStated ==
  probe.stage = "virtual" =>
    VirtualNormalize(probe.virt) = VirtualNormalize(probe.value)

\* The round trip of the paths that are "/memories" or begin with
\* "/memories/".
RoundTripSegmentRooted ==
  (probe.stage = "virtual" /\ (probe.value = VirtualRoot
                               \/ StartsWith(probe.value, V(<<"/">>)))) =>
    VirtualNormalize(probe.virt) = VirtualNormalize(probe.value)

-----------------------------------------------------------------------------
(* SpecSteps: calls that overlap.  The handlers are async functions: a     *)
(* call runs without interruption from one await to the next, and every    *)
(* await is on one filesystem call, so a step of a call is one filesystem  *)
(* call on the shared tree followed by the code up to the next await.      *)

\* The array that the listing of call p gathers its lines in:
\* const entries: string[] = [] belongs to the call.
EntriesShared(p) == 1

EntriesOf(p) == p

\* The real path whose existence the call requires.
Target(c) ==
  IF c.cmd.command = "rename" THEN toFsPath(c.cmd.old_path) ELSE toFsPath(c.cmd.path)

\* The call ends with a result string or a failure.
End(c, ok, err, out) ==
  [c EXCEPT !.pc = "done", !.out = [ok |-> ok, err |-> err, out |-> out]]

\* The call has made the filesystem call op on path.
Logged(c, op, path) == [c EXCEPT !.ops = Append(@, Call(op, path))]

\* The outcome of a step: the tree, the call and its array of lines.
Stepped(f, c, e) == [fs |-> f, call |-> c, entries |-> e]

\* writeFile: the awaits it makes, in order.
writeFileReversed == <<"write", "mkdir">>

writeFileSteps == <<"mkdir", "write">>

\* The assert lines at the head of each handler, run when it is called:
\* the name of the first argument that is missing, or "" when none is.
Missing(params) ==
  CASE params.command \in {"view", "create", "delete"} ->
         IF ~Truthy(params.path) THEN "path" ELSE ""
    [] params.command = "str_replace" ->
         IF ~Truthy(params.path) THEN "path"
         ELSE IF ~Truthy(params.old_str) THEN "old_str"
         ELSE IF ~Truthy(params.new_str) THEN "new_str" ELSE ""
    [] params.command = "insert" ->
         IF ~Truthy(params.path) THEN "path"
         ELSE IF params.insert_line = 0 THEN "insert_line"
         ELSE IF ~Truthy(params.insert_text) THEN "insert_text" ELSE ""
    [] params.command = "rename" ->
         IF ~Truthy(params.old_path) THEN "old_path"
         ELSE IF ~Truthy(params.new_path) THEN "new_path" ELSE ""

\* A variant of the view handler that lists at once.
FirstStepListing(command) ==
  IF command = "create" THEN writeFileSteps[1]
  ELSE IF command = "view" THEN "list_access" ELSE "access"

\* The first await of each handler.
FirstStep(command) ==
  IF command = "create" THEN writeFileSteps[1] ELSE "access"

\* The await that follows pc inside writeFile; "done" after the last.
AfterInWriteFile(pc) ==
  IF pc = writeFileSteps[Len(writeFileSteps)] THEN "done"
  ELSE writeFileSteps[(CHOOSE k \in 1..Len(writeFileSteps) : writeFileSteps[k] = pc) + 1]

\* The message a handler returns when it succeeds.
SuccessOf(c) ==
  CASE c.cmd.command = "create" -> Msg("Created: ", c.cmd.path)
    [] c.cmd.command = "str_replace" -> Msg("Replaced in ", c.cmd.path)
    [] c.cmd.command = "insert" ->
         Msg("Inserted at line ", NumStr(c.cmd.insert_line) \o <<" in ">> \o c.cmd.path)
    [] c.cmd.command = "delete" ->
         Msg(IF c.isDir THEN "Deleted directory: " ELSE "Deleted file: ", c.cmd.path)
    [] c.cmd.command = "rename" ->
         Msg("Renamed: ", c.cmd.old_path \o <<" -> ">> \o c.cmd.new_path)

\* The message of the assert on the existence of the target.
NotFoundOf(c) ==
  CASE c.cmd.command \in {"view", "delete"} -> Msg("Path does not exist: ", c.cmd.path)
    [] c.cmd.command \in {"str_replace", "insert"} ->
         Msg("File does not exist: ", c.cmd.path)
    [] c.cmd.command = "rename" -> Msg("Source path does not exist: ", c.cmd.old_path)

\* await mkdir(MEMORIES_ROOT, { recursive: true }), then the handler is
\* called and runs up to its first await.
StepEnsure(f, c, e) ==
  IF MkdirBlocked(f, MEMORIES_ROOT)
  THEN Stepped(f, End(c, FALSE, "IOFailure",
                      Msg("mkdir: ", PathString(MEMORIES_ROOT))), e)
  ELSE LET g == MkdirP(f, MEMORIES_ROOT)
       IN IF Missing(c.cmd) # ""
          THEN Stepped(g, End(c, FALSE, "MissingArgument", Dispatch(g, c.cmd).out), e)
          ELSE Stepped(g, [c EXCEPT !.pc = FirstStep(c.cmd.command)], e)

\* await pathExists(fsPath) and the assert on its answer.
StepAccess(f, c, e) ==
  LET d == Logged(c, "access", Target(c))
  IN IF ~pathExists(f, Target(c))
     THEN Stepped(f, End(d, FALSE, "NotFound", NotFoundOf(c)), e)
     ELSE Stepped(f, [d EXCEPT !.pc =
                        CASE c.cmd.command \in {"view", "delete"} -> "stat"
                          [] c.cmd.command \in {"str_replace", "insert"} -> "read"
                          [] c.cmd.command = "rename" -> "mkdir"], e)

\* await getStats(fsPath): fails when the path is no longer there.
StepStat(f, c, e) ==
  LET d == Logged(c, "stat", Target(c))
  IN IF ~pathExists(f, Target(c))
     THEN Stepped(f, End(d, FALSE, "IOFailure", Msg("stat: ", PathString(Target(c)))), e)
     ELSE Stepped(f, [d EXCEPT !.isDir = isDirectory(f, Target(c)),
                               !.pc = IF c.cmd.command = "delete" THEN "rm"
                                      ELSE IF isDirectory(f, Target(c))
                                      THEN "list_access" ELSE "read"], e)

\* listDirectory: await pathExists(fsPath); then the array of lines is
\* made and walk is called on the directory.
StepListAccess(f, c, e) ==
  LET d == Logged(c, "access", Target(c))
  IN IF ~pathExists(f, Target(c))
     THEN Stepped(f, End(d, TRUE, "none", <<"Directory is empty or does not exist.">>), e)
     ELSE Stepped(f, [d EXCEPT !.pc = "readdir", !.cur = Target(c), !.pending = <<>>],
                  <<>>)

\* The readdir item for the entry q: its real path and whether it is a
\* directory.
Item(f, q) == [segs |-> q, dir |-> IsDir(f, q)]

\* The line walk pushes for an item.
ItemLine(item) ==
  toVirtualPath([segs |-> item.segs, trail |-> FALSE])
    \o (IF item.dir THEN <<"/">> ELSE <<>>)

\* walk between two awaits: the loop pushes the line of each item up to
\* and including the first directory, on which walk is called and awaits
\* readdir; with no item left, walk is over and listDirectory returns.
Advance(f, c, e, items) ==
  LET dirs == { k \in 1..Len(items) : items[k].dir }
      stop == IF dirs = {} THEN Len(items)
              ELSE CHOOSE k \in dirs : \A j \in dirs : k <= j
      lines == [k \in 1..stop |-> ItemLine(items[k])]
      all == IF stop = 0 THEN e ELSE e \o lines
      d == [c EXCEPT !.own = IF stop = 0 THEN @ ELSE @ \o lines]
  IN IF dirs = {}
     THEN Stepped(f, End([d EXCEPT !.pending = <<>>], TRUE, "none",
                         IF Len(all) > 0 THEN Join(all, "\n")
                         ELSE <<"No files found.">>), all)
     ELSE Stepped(f, [d EXCEPT !.pc = "readdir",
                               !.cur = [segs |-> items[stop].segs, trail |-> FALSE],
                               !.pending = Drop(items, stop + 1)], all)

\* A variant in which the readdir is never answered.
StepReaddirPending(f, c, e) == Stepped(f, c, e)

\* await readdir(currentPath, { withFileTypes: true }): fails when the
\* directory is no longer there.
StepReaddir(f, c, e) ==
  LET d == Logged(c, "readdir", c.cur)
  IN IF ~IsDir(f, c.cur.segs)
     THEN Stepped(f, End(d, FALSE, "IOFailure", Msg("readdir: ", PathString(c.cur))), e)
     ELSE LET found == Ordered(Children(f, c.cur.segs))
              items == IF Len(found) = 0 THEN <<>>
                       ELSE [k \in 1..Len(found) |-> Item(f, found[k])]
          IN Advance(f, d, e, items \o c.pending)

\* await Bun.file(fsPath).text(), then the code up to the next await:
\* view returns the content or its slice; str_replace asserts the match and
\* computes the new content; insert splices the line in.
StepRead(f, c, e) ==
  LET d == Logged(c, "read", Target(c))
  IN IF ~pathExists(f, Target(c)) \/ isDirectory(f, Target(c))
     THEN Stepped(f, End(d, FALSE, "IOFailure", Msg("read: ", PathString(Target(c)))), e)
     ELSE
       LET content == f[Target(c).segs].content
           r == [d EXCEPT !.own = <<content>>]
       IN CASE c.cmd.command = "view" ->
                 Stepped(f, End(r, TRUE, "none",
                                IF c.cmd.view_range # <<>>
                                THEN Join(Slice(Split(content, "\n"),
                                                c.cmd.view_range[1],
                                                c.cmd.view_range[2]), "\n")
                                ELSE content), e)
            [] c.cmd.command = "str_replace" ->
                 IF ~Includes(content, c.cmd.old_str)
                 THEN Stepped(f, End(r, FALSE, "NotMatched",
                                     Msg("String not found in file: ", c.cmd.old_str)), e)
                 ELSE Stepped(f, [r EXCEPT
                                    !.content = JsReplace(content, c.cmd.old_str,
                                                          c.cmd.new_str),
                                    !.pc = writeFileSteps[1]], e)
            [] c.cmd.command = "insert" ->
                 Stepped(f, [r EXCEPT
                               !.content = Join(Splice(Split(content, "\n"),
                                                       c.cmd.insert_line,
                                                       c.cmd.insert_text), "\n"),
                               !.pc = writeFileSteps[1]], e)

\* The call goes on to the await after pc in writeFile, or returns.
AfterWriteFile(f, c, e) ==
  IF AfterInWriteFile(c.pc) = "done"
  THEN Stepped(f, End(c, TRUE, "none", SuccessOf(c)), e)
  ELSE Stepped(f, [c EXCEPT !.pc = AfterInWriteFile(c.pc)], e)

\* await mkdir(dirname(...), { recursive: true }): in writeFile for the
\* target, in handleRename for the destination.
StepMkdir(f, c, e) ==
  LET dir == IF c.cmd.command = "rename" THEN Dirname(toFsPath(c.cmd.new_path))
             ELSE Dirname(Target(c))
      d == Logged(c, "mkdir", dir)
  IN IF MkdirBlocked(f, dir)
     THEN Stepped(f, End(d, FALSE, "IOFailure", Msg("mkdir: ", PathString(dir))), e)
     ELSE IF c.cmd.command = "rename"
     THEN Stepped(MkdirP(f, dir), [d EXCEPT !.pc = "rename"], e)
     ELSE AfterWriteFile(MkdirP(f, dir), d, e)

\* await Bun.write(fsPath, content)
StepWrite(f, c, e) ==
  LET d == Logged(c, "write", Target(c))
      text == IF c.cmd.command = "create"
              THEN (IF Truthy(c.cmd.file_text) THEN c.cmd.file_text ELSE <<>>)
              ELSE c.content
  IN IF WriteBlocked(f, Target(c))
     THEN Stepped(f, End(d, FALSE, "IOFailure", Msg("write: ", PathString(Target(c)))), e)
     ELSE AfterWriteFile(BunWrite(f, Target(c), text), d, e)

\* await rm(fsPath, { recursive: true, force: true })
StepRm(f, c, e) ==
  Stepped(Rm(f, Target(c)), End(Logged(c, "rm", Target(c)), TRUE, "none", SuccessOf(c)), e)

\* await fsRename(oldFsPath, newFsPath)
StepRename(f, c, e) ==
  LET new == toFsPath(c.cmd.new_path)
      d == Logged(Logged(c, "rename", Target(c)), "rename", new)
  IN IF RenameBlocked(f, Target(c), new)
     THEN Stepped(f, End(d, FALSE, "IOFailure", Msg("rename: ", PathString(new))), e)
     ELSE Stepped(FsRename(f, Target(c), new), End(d, TRUE, "none", SuccessOf(c)), e)

\* One step of a call: the filesystem call it awaits, on the tree f.
StepOf(f, c, e) ==
  CASE c.pc = "ensure" -> StepEnsure(f, c, e)
    [] c.pc = "access" -> StepAccess(f, c, e)
    [] c.pc = "stat" -> StepStat(f, c, e)
    [] c.pc = "list_access" -> StepListAccess(f, c, e)
    [] c.pc = "readdir" -> StepReaddir(f, c, e)
    [] c.pc = "read" -> StepRead(f, c, e)
    [] c.pc = "mkdir" -> StepMkdir(f, c, e)
    [] c.pc = "write" -> StepWrite(f, c, e)
    [] c.pc = "rm" -> StepRm(f, c, e)
    [] c.pc = "rename" -> StepRename(f, c, e)

\* Another call's step took the tree from f to g: a view that has seen
\* its target and has not begun to list it notes whether the target went.
Noted(c, f, g) ==
  IF /\ c.cmd.command = "view"
     /\ c.pc \in {"stat", "list_access"}
     /\ pathExists(f, Target(c))
     /\ ~pathExists(g, Target(c))
  THEN [c EXCEPT !.lost = TRUE]
  ELSE c

\* A call arrives in the free slot p: the schema parses its parameters and
\* memory is called, or the call is refused.  Calls that would take the
\* tree beyond cap are left out.
Begin(p, params, cap) ==
  /\ run[p].call.pc = "idle"
  /\ TreeBounded(Call_(fs, params).fs, cap)
  /\ run' = [run EXCEPT ![p].call =
               IF (\E v \in Supplied(params) : ~pathLike(v).ok)
                  \/ ~RangeSchema(params.view_range)
               THEN End([IdleRun EXCEPT !.cmd = params], FALSE, "ValidationError",
                        <<"Invalid arguments">>)
               ELSE [IdleRun EXCEPT !.pc = "ensure",
                                    !.cmd = [params EXCEPT !.path = Parsed(@),
                                                           !.old_path = Parsed(@),
                                                           !.new_path = Parsed(@)]]]
  /\ UNCHANGED <<fs, prior, cmd, res, touched, probe>>

\* The tree and the calls once the filesystem call that slot p awaits has
\* been made and the call has run to its next await or to its end.
Resumed(p) ==
  LET r == StepOf(fs, run[p].call, run[EntriesOf(p)].entries)
  IN  [fs |-> r.fs,
       run |-> [q \in Slots |->
                  [call |-> IF q = p THEN r.call ELSE Noted(run[q].call, fs, r.fs),
                   entries |-> IF q = EntriesOf(p) THEN r.entries
                               ELSE run[q].entries]]]

\* The call in slot p is resumed: its filesystem call is made on the tree
\* and the call runs to its next await or to its end.
ResumeCall(p, cap) ==
  /\ run[p].call.pc \notin {"idle", "done"}
  /\ \E r \in {Resumed(p)} :
       /\ TreeBounded(r.fs, cap)
       /\ fs' = r.fs
       /\ run' = r.run
  /\ UNCHANGED <<prior, cmd, res, touched, probe>>

\* The call in slot p awaits a filesystem call whose return moves it on:
\* the condition under which <<ResumeCall(p, cap)>>_vars is enabled.
Awaiting(p, cap) ==
  /\ run[p].call.pc \notin {"idle", "done"}
  /\ TreeBounded(Resumed(p).fs, cap)
  /\ <<Resumed(p).fs, Resumed(p).run>> # <<fs, run>>

\* The result or the failure of the call in slot p is handed to its
\* caller, and the slot is free again.
FinishCall(p) ==
  /\ run[p].call.pc = "done"
  /\ run' = [q \in Slots |->
               [call |-> IF q = p THEN IdleRun ELSE run[q].call,
                entries |-> IF q = EntriesOf(p) THEN <<>> ELSE run[q].entries]]
  /\ UNCHANGED <<fs, prior, cmd, res, touched, probe>>

Finish(U) == \E p \in U.viewers \cup U.writers : FinishCall(p)

Resume(U) == \E p \in U.viewers \cup U.writers : ResumeCall(p, U.cap)

BeginView(U) ==
  \E p \in U.viewers, view_range \in U.ranges :
    \E path \in U.views[p] :
    Begin(p, [NoParams EXCEPT !.command = "view", !.path = path,
                              !.view_range = view_range], U.cap)

BeginCreate(U) ==
  \E p \in U.writers, path \in U.paths, file_text \in U.file_texts :
    Begin(p, [NoParams EXCEPT !.command = "create", !.path = path,
                              !.file_text = file_text], U.cap)

BeginStrReplace(U) ==
  \E p \in U.writers, path \in U.paths, old_str \in U.old_strs, new_str \in U.new_strs :
    Begin(p, [NoParams EXCEPT !.command = "str_replace", !.path = path,
                              !.old_str = old_str, !.new_str = new_str], U.cap)

BeginInsert(U) ==
  \E p \in U.writers, path \in U.paths, insert_line \in U.lines,
     insert_text \in U.insert_texts :
    Begin(p, [NoParams EXCEPT !.command = "insert", !.path = path,
                              !.insert_line = insert_line,
                              !.insert_text = insert_text], U.cap)

BeginDelete(U) ==
  \E p \in U.writers, path \in U.paths :
    Begin(p, [NoParams EXCEPT !.command = "delete", !.path = path], U.cap)

BeginRename(U) ==
  \E p \in U.writers, old_path \in U.olds, new_path \in U.news :
    Begin(p, [NoParams EXCEPT !.command = "rename", !.old_path = old_path,
                              !.new_path = new_path], U.cap)

\* The calls of SpecSteps: two views that overlap with one call that
\* writes.
StepInputs ==
  [viewers |-> {1, 2},
   writers |-> {3},
   views |-> [p \in {1, 2} |->
               IF p = 1 THEN { V(<<>>), V(<<"/", "d">>), V(<<"/", "d", "/", "a">>) }
               ELSE { V(<<"/", "d">>) }],
   paths |-> { V(<<"/", "d">>), V(<<"/", "d", "/", "a">>) },
   olds |-> { V(<<"/", "d", "/", "a">>) },
   news |-> { V(<<"/", "d">>) },
   ranges |-> { <<>> },
   file_texts |-> { <<"X">> },
   old_strs |-> { <<"X">> },
   new_strs |-> { <<"Y">> },
   lines |-> { 1 },
   insert_texts |-> { <<"Y">> },
   cap |-> MaxContent]

NextSteps ==
  \/ BeginView(StepInputs)
  \/ BeginCreate(StepInputs)
  \/ BeginStrReplace(StepInputs)
  \/ BeginInsert(StepInputs)
  \/ BeginDelete(StepInputs)
  \/ BeginRename(StepInputs)
  \/ Resume(StepInputs)
  \/ Finish(StepInputs)

SpecSteps == Init /\ [][NextSteps]_vars

\* The calls of SpecStepsFair: one view that overlaps with one call that
\* writes.
FairInputs == [StepInputs EXCEPT !.viewers = {1}]

NextStepsFair ==
  \/ BeginView(FairInputs)
  \/ BeginCreate(FairInputs)
  \/ BeginStrReplace(FairInputs)
  \/ BeginInsert(FairInputs)
  \/ BeginDelete(FairInputs)
  \/ BeginRename(FairInputs)
  \/ Resume(FairInputs)
  \/ Finish(FairInputs)

\* Every filesystem call returns, so a call that awaits one is resumed:
\* weak fairness of ResumeCall(p, cap) for each slot, with its enabling
\* condition written as Awaiting(p, cap).  The promise of a call that has
\* ended is settled: weak fairness of FinishCall(p).
SpecStepsFair ==
  /\ Init
  /\ [][NextStepsFair]_vars
  /\ \A p \in FairInputs.viewers \cup FairInputs.writers :
       \/ []<>(~Awaiting(p, FairInputs.cap))
       \/ []<><<ResumeCall(p, FairInputs.cap)>>_vars
  /\ \A p \in FairInputs.viewers \cup FairInputs.writers :
       WF_vars(FinishCall(p))

-----------------------------------------------------------------------------
(* Claims on the command handlers (Spec, SpecEdit).  A state with a call   *)
(* being answered (~Idle) holds the call (cmd), its outcome (res), the     *)
(* tree it started from (prior) and the tree it left (fs).                 *)

\* What a view of the given path, sent as the next call, returns.
ViewNext(path) == Call_(fs, [NoParams EXCEPT !.command = "view", !.path = path])

\* The tree the handler of the call being answered started from: the tree
\* before the call, with the storage root ensured.
Started == MkdirP(prior, MEMORIES_ROOT)

\* C1: every real path a handler gives to a filesystem call is the storage
\* root or a descendant of it.
C1_AsStated == \A c \in touched : InsideRoot(c.path)

\* The same, leaving aside the recursive mkdir of the target's directory.
TouchedInsideButMkdir == \A c \in touched : c.op # "mkdir" => InsideRoot(c.path)

\* C6: after create(path, text) succeeds, a view of path returns exactly
\* text, or the empty string when file_text was omitted; and create does
\* not fail when a file is already at path.
C6_CreateThenView ==
  /\ (cmd.command = "create" /\ res.ok) =>
       /\ ViewNext(cmd.path).ok
       /\ ViewNext(cmd.path).out =
            (IF cmd.file_text = Undefined THEN <<>> ELSE cmd.file_text)
  /\ (/\ cmd.command = "create"
      /\ cmd.path # Undefined
      /\ pathLike(cmd.path).ok
      /\ pathExists(Started, toFsPath(pathLike(cmd.path).value))
      /\ ~isDirectory(Started, toFsPath(pathLike(cmd.path).value))) => res.ok

\* A create succeeded over a file that held another text.
C6_Witness ==
  /\ cmd.command = "create"
  /\ res.ok
  /\ IsFile(prior, toFsPath(pathLike(cmd.path).value).segs)
  /\ prior[toFsPath(pathLike(cmd.path).value).segs].content # <<>>
  /\ cmd.file_text = <<>>

\* The first occurrence of old_str replaced by new_str as it is written.
LiteralReplace(content, old_str, new_str) ==
  LET at == IndexOf(content, old_str)
  IN SubSeq(content, 1, at - 1) \o new_str \o Drop(content, at + Len(old_str))

\* C7: a str_replace that succeeds writes back the content with the first
\* occurrence of old_str replaced by new_str taken as a literal string, the
\* rest unchanged.
C7_AsStated ==
  (cmd.command = "str_replace" /\ res.ok) =>
    LET target == toFsPath(pathLike(cmd.path).value).segs
    IN fs[target].content =
         LiteralReplace(prior[target].content, cmd.old_str, cmd.new_str)

\* C8: str_replace given path, old_str and new_str, and insert given path,
\* insert_line and insert_text, never fail with a missing-argument error.
C8_AsStated ==
  /\ (/\ cmd.command = "str_replace"
      /\ cmd.path # Undefined
      /\ cmd.old_str # Undefined
      /\ cmd.new_str # Undefined) => res.err # "MissingArgument"
  /\ (/\ cmd.command = "insert"
      /\ cmd.path # Undefined
      /\ cmd.insert_line # 0
      /\ cmd.insert_text # Undefined) => res.err # "MissingArgument"

\* C9: a call that fails leaves the stored tree exactly as it was before
\* the call.
C9_AsStated == (~Idle /\ ~res.ok) => StoredTree(fs) = StoredTree(prior)

\* The real path the validated virtual path v stands for.
RealOf(v) == toFsPath(pathLike(v).value)

\* C10, as stated: after rename(old, new) succeeds on an existing file old,
\* view(new) returns the content old had and view(old) fails with a
\* not-found error.
C10_AsStated ==
  (cmd.command = "rename" /\ res.ok /\ IsFile(prior, RealOf(cmd.old_path).segs)) =>
    /\ ViewNext(cmd.new_path).ok
    /\ ViewNext(cmd.new_path).out = prior[RealOf(cmd.old_path).segs].content
    /\ ViewNext(cmd.old_path).err = "NotFound"

\* C10, amended: the same for old and new that resolve to different real
\* paths.
C10_RenameThenView ==
  (/\ cmd.command = "rename"
   /\ res.ok
   /\ IsFile(prior, RealOf(cmd.old_path).segs)
   /\ RealOf(cmd.old_path).segs # RealOf(cmd.new_path).segs) =>
    /\ ViewNext(cmd.new_path).ok
    /\ ViewNext(cmd.new_path).out = prior[RealOf(cmd.old_path).segs].content
    /\ ViewNext(cmd.old_path).err = "NotFound"

\* A file was renamed onto another file that held a different text.
C10_Witness ==
  /\ cmd.command = "rename"
  /\ res.ok
  /\ IsFile(prior, RealOf(cmd.old_path).segs)
  /\ IsFile(prior, RealOf(cmd.new_path).segs)
  /\ RealOf(cmd.old_path).segs # RealOf(cmd.new_path).segs
  /\ prior[RealOf(cmd.old_path).segs].content # prior[RealOf(cmd.new_path).segs].content

\* The virtual path that names the real path q below the storage root.
VirtualOf(q) ==
  V(<<"/">>) \o Join(Drop(q, Len(MEMORIES_ROOT.segs) + 1), "/")

\* The entries a delete of the real path p removed: p and all below it.
Removed(p) == { q \in DOMAIN Started : IsPrefix(p.segs, q) }

\* C11, as stated: after delete(path) succeeds on a directory, a view of
\* the directory path and a view of every former descendant fail with a
\* not-found error.
C11_AsStated ==
  (cmd.command = "delete" /\ res.ok /\ IsDir(Started, RealOf(cmd.path).segs)) =>
    /\ ViewNext(cmd.path).err = "NotFound"
    /\ \A q \in Removed(RealOf(cmd.path)) \ {RealOf(cmd.path).segs} :
         ViewNext(VirtualOf(q)).err = "NotFound"

\* C11, amended: the same, where the view of the directory path itself
\* fails only for a directory other than the storage root.
C11_DeleteThenView ==
  (cmd.command = "delete" /\ res.ok /\ IsDir(Started, RealOf(cmd.path).segs)) =>
    /\ RealOf(cmd.path).segs # MEMORIES_ROOT.segs =>
         ViewNext(cmd.path).err = "NotFound"
    /\ \A q \in Removed(RealOf(cmd.path)) \ {RealOf(cmd.path).segs} :
         ViewNext(VirtualOf(q)).err = "NotFound"

\* A directory that held a file two levels below it was deleted.
C11_Witness ==
  /\ cmd.command = "delete"
  /\ res.ok
  /\ IsDir(prior, RealOf(cmd.path).segs)
  /\ \E q \in Removed(RealOf(cmd.path)) :
       Len(q) = Len(RealOf(cmd.path).segs) + 2 /\ IsFile(prior, q)

\* The lines L1..LN with text put in as line k, the old line k and all
\* later lines one further down; as the last line when k is greater than N.
LinesWith(lines, k, text) ==
  [i \in 1..(Len(lines) + 1) |->
     IF k > Len(lines) THEN (IF i <= Len(lines) THEN lines[i] ELSE text)
     ELSE IF i < k THEN lines[i]
     ELSE IF i = k THEN text
     ELSE lines[i - 1]]

\* The content insert(path, k, text) is to leave in the file at target.
InsertExpected(target) ==
  Join(LinesWith(Split(Started[target].content, "\n"),
                 cmd.insert_line, cmd.insert_text), "\n")

\* C12: insert(path, k, text) on an existing file writes back L1..L(k-1),
\* text, Lk..LN joined by "\n"; with k greater than N the text becomes the
\* last line and no error is raised.
C12_AsStated ==
  (/\ cmd.command = "insert"
   /\ cmd.insert_line # 0
   /\ cmd.insert_text # Undefined
   /\ pathExists(Started, RealOf(cmd.path))
   /\ IsFile(Started, RealOf(cmd.path).segs)) =>
    /\ res.ok
    /\ fs[RealOf(cmd.path).segs].content = InsertExpected(RealOf(cmd.path).segs)

\* The same for a text that is not the empty string.
InsertSplicesText ==
  (/\ cmd.command = "insert"
   /\ cmd.insert_line # 0
   /\ cmd.insert_text # Undefined
   /\ cmd.insert_text # <<>>
   /\ pathExists(Started, RealOf(cmd.path))
   /\ IsFile(Started, RealOf(cmd.path).segs)) =>
    /\ res.ok
    /\ fs[RealOf(cmd.path).segs].content = InsertExpected(RealOf(cmd.path).segs)

\* The lines numbered a..e of a file, none when e is less than a.
LinesFromTo(lines, a, e) ==
  IF e < a THEN <<>> ELSE [i \in 1..(e - a + 1) |-> lines[a + i - 1]]

\* C13: view(path, [a, b]) on a file of N lines returns the lines
\* a..min(b, N) joined by "\n", the empty string when a is greater than N,
\* and does not fail.
C13_ViewRange ==
  (/\ cmd.command = "view"
   /\ cmd.view_range # <<>>
   /\ cmd.view_range[1] >= 1
   /\ cmd.view_range[2] >= 1
   /\ pathExists(Started, RealOf(cmd.path))
   /\ IsFile(Started, RealOf(cmd.path).segs)) =>
    LET lines == Split(Started[RealOf(cmd.path).segs].content, "\n")
        a == cmd.view_range[1]
        b == cmd.view_range[2]
    IN /\ res.ok
       /\ res.out = Join(LinesFromTo(lines, a, Min(b, Len(lines))), "\n")
       /\ a > Len(lines) => res.out = <<>>

\* A range that ends beyond the last line was viewed on a file of two or
\* more lines, and a line came back.
C13_Witness ==
  /\ cmd.command = "view"
  /\ res.ok
  /\ cmd.view_range # <<>>
  /\ IsFile(prior, RealOf(cmd.path).segs)
  /\ Len(Split(prior[RealOf(cmd.path).segs].content, "\n")) >= 2
  /\ cmd.view_range[1] >= 2
  /\ cmd.view_range[2] > Len(Split(prior[RealOf(cmd.path).segs].content, "\n"))
  /\ res.out # <<>>

\* C14: every view_range the view handler is given has end >= start; a
\* pair with end < start is refused by the parameter schema.
C14_AsStated ==
  (cmd.command = "view" /\ cmd.view_range # <<>> /\ res.ran) =>
    cmd.view_range[2] >= cmd.view_range[1]

\* What the schema does refuse: a pair with a number below 1.
RangeBelowOneRefused ==
  (/\ cmd.command = "view"
   /\ cmd.view_range # <<>>
   /\ (cmd.view_range[1] < 1 \/ cmd.view_range[2] < 1)) =>
    res.err = "ValidationError"

\* The entries below the real path dir, at every depth.
Descendants(dir) == { q \in DOMAIN Started : IsProperPrefix(dir, q) }

\* The line that stands for the entry q in a listing: its virtual path,
\* with "/" after it when q is a directory.
LineOf(q) == VirtualOf(q) \o (IF IsDir(Started, q) THEN <<"/">> ELSE <<>>)

\* C15: view on a directory returns one line for every descendant at every
\* depth, files and empty directories alike, none missing and none
\* repeated; each line is the entry's virtual path beginning with
\* "/memories/", followed by "/" exactly for a directory; the line of a
\* directory comes before the lines of its descendants.
C15_Listing ==
  (/\ cmd.command = "view"
   /\ res.ok
   /\ IsDir(Started, RealOf(cmd.path).segs)
   /\ Descendants(RealOf(cmd.path).segs) # {}) =>
    LET D == Descendants(RealOf(cmd.path).segs)
        lines == Split(res.out, "\n")
    IN /\ Len(lines) = Cardinality(D)
       /\ { lines[i] : i \in 1..Len(lines) } = { LineOf(q) : q \in D }
       /\ \A i \in 1..Len(lines) : StartsWith(lines[i], V(<<"/">>))
       /\ \A i \in 1..Len(lines) : \A q \in D :
            lines[i] = LineOf(q) =>
              (lines[i][Len(lines[i])] = "/" <=> IsDir(Started, q))
       /\ \A i, j \in 1..Len(lines) : \A q, r \in D :
            (/\ lines[i] = LineOf(q)
             /\ lines[j] = LineOf(r)
             /\ IsDir(Started, q)
             /\ IsProperPrefix(q, r)) => i < j

\* The storage root was listed while it held a directory with a file in it
\* and an empty directory.
C15_Witness ==
  /\ cmd.command = "view"
  /\ res.ok
  /\ RealOf(cmd.path).segs = MEMORIES_ROOT.segs
  /\ \E q \in Descendants(MEMORIES_ROOT.segs) :
       IsDir(Started, q) /\ Descendants(q) = {}
  /\ \E q \in Descendants(MEMORIES_ROOT.segs) :
       IsFile(Started, q) /\ Len(q) = Len(MEMORIES_ROOT.segs) + 2

\* The call being answered is a view the schema let through.
ViewOfValidated ==
  /\ cmd.command = "view"
  /\ cmd.path # Undefined
  /\ pathLike(cmd.path).ok
  /\ RangeSchema(cmd.view_range)

\* C16: view on an empty directory, one that was never created or one
\* that exists with nothing below it, returns a sentinel message that is
\* not the empty string, and does not fail.
C16_AsStated ==
  (/\ ViewOfValidated
   /\ \/ RealOf(cmd.path).segs \notin DOMAIN Started
      \/ /\ IsDir(Started, RealOf(cmd.path).segs)
         /\ Descendants(RealOf(cmd.path).segs) = {}) =>
    res.ok /\ res.out # <<>>

\* C16, amended: view on a directory that exists with nothing below it
\* (the storage root on first use included) returns the sentinel message
\* and does not fail; view on a path at which nothing was created fails
\* with a not-found error.
C16_EmptySentinel ==
  /\ (/\ ViewOfValidated
      /\ IsDir(Started, RealOf(cmd.path).segs)
      /\ Descendants(RealOf(cmd.path).segs) = {}) =>
       res.ok /\ res.out = <<"No files found.">> /\ res.out # <<>>
  /\ (ViewOfValidated /\ RealOf(cmd.path).segs \notin DOMAIN Started) =>
       res.err = "NotFound"

\* A directory other than the storage root, with nothing below it, was
\* viewed.
C16_Witness ==
  /\ ViewOfValidated
  /\ res.ok
  /\ IsDir(prior, RealOf(cmd.path).segs)
  /\ RealOf(cmd.path).segs # MEMORIES_ROOT.segs
  /\ Descendants(RealOf(cmd.path).segs) = {}

\* The call being answered is a str_replace with its three arguments
\* supplied, on an existing file whose content does not hold old_str.
ReplaceOfAbsentText ==
  /\ cmd.command = "str_replace"
  /\ cmd.path # Undefined
  /\ pathLike(cmd.path).ok
  /\ cmd.old_str # Undefined
  /\ cmd.new_str # Undefined
  /\ pathExists(Started, RealOf(cmd.path))
  /\ IsFile(Started, RealOf(cmd.path).segs)
  /\ ~Includes(Started[RealOf(cmd.path).segs].content, cmd.old_str)

\* C17: str_replace on an existing file whose content does not contain
\* old_str fails with a not-matched error and leaves the file and every
\* other stored entry unchanged.
C17_AsStated ==
  ReplaceOfAbsentText =>
    res.err = "NotMatched" /\ StoredTree(fs) = StoredTree(prior)

\* The same for a new_str that is not the empty string.
NotMatchedLeavesTree ==
  (ReplaceOfAbsentText /\ cmd.new_str # <<>>) =>
    res.err = "NotMatched" /\ StoredTree(fs) = StoredTree(prior)

\* The virtual path whose existence the call being answered requires.
RequiredPath == IF cmd.command = "rename" THEN cmd.old_path ELSE cmd.path

\* The call being answered has every field its command requires, passes
\* the schema, and its required path resolves to no existing entry.
OnMissingEntry ==
  /\ cmd.command \in {"view", "str_replace", "insert", "delete", "rename"}
  /\ \A v \in Supplied(cmd) : pathLike(v).ok
  /\ RangeSchema(cmd.view_range)
  /\ RequiredPath # Undefined
  /\ cmd.command = "str_replace" => (cmd.old_str # Undefined /\ cmd.new_str # Undefined)
  /\ cmd.command = "insert" => (cmd.insert_line # 0 /\ cmd.insert_text # Undefined)
  /\ cmd.command = "rename" => cmd.new_path # Undefined
  /\ ~pathExists(Started, RealOf(RequiredPath))

\* The strings supplied to the call being answered are not empty.
NoEmptyString ==
  \A v \in {cmd.old_str, cmd.new_str, cmd.insert_text} : v # <<>>

\* The call failed with a not-found error that names the virtual path, and
\* left the stored tree as it was.
NotFoundUnchanged ==
  /\ res.err = "NotFound"
  /\ Tail(res.out) = pathLike(RequiredPath).value
  /\ StoredTree(fs) = StoredTree(prior)

\* C18: view, str_replace, insert and delete on a path, and rename with an
\* old_path, that resolves to no existing entry fail with a not-found error
\* naming the virtual path and leave the stored tree unchanged.
C18_AsStated == OnMissingEntry => NotFoundUnchanged

\* The same for calls whose supplied strings are not empty.
NotFoundLeavesTree == (OnMissingEntry /\ NoEmptyString) => NotFoundUnchanged

\* The filesystem calls that only read.
ReadCalls == {"access", "stat", "read", "readdir"}

\* C19: a view call, successful or failing, on a file or a directory, with
\* or without view_range, leaves the stored entries, their kinds and the
\* content of every file as they were, and makes no call that writes.
C19_ViewReadOnly ==
  cmd.command = "view" =>
    /\ StoredTree(fs) = StoredTree(prior)
    /\ fs \in {prior, Started}
    /\ \A c \in touched : c.op \in ReadCalls

\* A directory that holds an empty directory and a file was listed.
C19_Witness ==
  /\ cmd.command = "view"
  /\ res.ok
  /\ IsDir(prior, RealOf(cmd.path).segs)
  /\ \E q \in Descendants(RealOf(cmd.path).segs) :
       IsDir(prior, q) /\ Descendants(q) = {}
  /\ \E q \in Descendants(RealOf(cmd.path).segs) :
       IsFile(prior, q) /\ prior[q].content # <<>>

\* C20: the storage root exists whenever a handler starts to run, for every
\* command and after any earlier calls; the step that ensures it changes
\* nothing when the root is there already, and never anything below it.
C20_RootEnsured ==
  (~Idle /\ res.ran) =>
    /\ IsDir(res.start, MEMORIES_ROOT.segs)
    /\ IsDir(prior, MEMORIES_ROOT.segs) => res.start = prior
    /\ StoredTree(res.start) = StoredTree(prior)

\* A handler started after an earlier call had removed the storage root.
C20_Witness ==
  /\ ~Idle
  /\ res.ran
  /\ ~IsDir(prior, MEMORIES_ROOT.segs)
  /\ IsDir(prior, Parent(MEMORIES_ROOT.segs))

-----------------------------------------------------------------------------
(* Claims on overlapping calls (SpecSteps).                                *)

\* The view in slot p has returned a listing or a content.
Viewed(p) ==
  /\ run[p].call.cmd.command = "view"
  /\ run[p].call.pc = "done"
  /\ run[p].call.out.ok
  /\ run[p].call.out.out # <<"Directory is empty or does not exist.">>

\* C21: whatever calls overlap, a view returns a listing made of the lines
\* its own readdir calls gave, in their order and nothing else, or the
\* content its own read gave; no line gathered by another call is in it.
C21_OwnReadsOnly ==
  \A p \in Slots :
    Viewed(p) =>
      IF run[p].call.isDir
      THEN run[p].call.out.out =
             (IF Len(run[p].call.own) > 0 THEN Join(run[p].call.own, "\n")
              ELSE <<"No files found.">>)
      ELSE /\ Len(run[p].call.own) = 1
           /\ run[p].call.out.out =
                (IF run[p].call.cmd.view_range = <<>> THEN run[p].call.own[1]
                 ELSE Join(Slice(Split(run[p].call.own[1], "\n"),
                                 run[p].call.cmd.view_range[1],
                                 run[p].call.cmd.view_range[2]), "\n"))

\* Two views have returned different listings while a create or a
\* str_replace is between two of its awaits.
C21_Witness ==
  /\ Viewed(1) /\ run[1].call.isDir /\ Len(run[1].call.own) >= 2
  /\ Viewed(2) /\ run[2].call.isDir /\ Len(run[2].call.own) >= 1
  /\ run[1].call.own # run[2].call.own
  /\ run[3].call.cmd.command \in {"create", "str_replace"}
  /\ run[3].call.pc \in {"mkdir", "write", "read"}

\* The names of the filesystem calls the call in slot p has made, in order.
OpsOf(p) == [k \in 1..Len(run[p].call.ops) |-> run[p].call.ops[k].op]

\* The call in slot p is a str_replace or an insert.
Edits(p) == run[p].call.cmd.command \in {"str_replace", "insert"}

\* The entry of the tree f at the real path p, "none" when there is none.
EntryAt(f, p) == IF p.segs \in DOMAIN f THEN f[p.segs] ELSE "none"

\* In a str_replace or an insert the write comes after the existence
\* check and the read, and the call has ended once it is made.
WriteIsLast ==
  \A p \in Slots :
    Edits(p) =>
      \A k \in 1..Len(run[p].call.ops) :
        OpsOf(p)[k] = "write" =>
          /\ k = Len(run[p].call.ops)
          /\ run[p].call.pc = "done"
          /\ \E i, j \in 1..(k - 1) :
               i < j /\ OpsOf(p)[i] = "access" /\ OpsOf(p)[j] = "read"

\* A step of a str_replace or an insert that is not its write leaves the
\* file as it is.
OnlyWriteChangesFile ==
  \A p \in Slots :
    (/\ Edits(p)
     /\ run'[p].call # run[p].call
     /\ run[p].call.pc # "write") =>
      EntryAt(fs', Target(run[p].call)) = EntryAt(fs, Target(run[p].call))

ReadsOnce(p) ==
  \A i, j \in 1..Len(run[p].call.ops) :
    (/\ i < j
     /\ run[p].call.ops[i].op = "readdir"
     /\ run[p].call.ops[j].op = "readdir") =>
      run[p].call.ops[i].path # run[p].call.ops[j].path

\* C23: every call, once it has begun, ends with a result string or a
\* failure and is handed to its caller, given that each filesystem call
\* returns; and the walk of a view reads each directory once.
C23_Terminates ==
  /\ \A p \in FairInputs.viewers \cup FairInputs.writers :
       /\ (run[p].call.pc \notin {"idle", "done"}) ~> (run[p].call.pc = "done")
       /\ (run[p].call.pc = "done") ~> (run[p].call.pc = "idle")
  /\ [](\A p \in Slots : ReadsOnce(p))

\* A view has ended after its walk read the storage root and a directory
\* in it.
C23_Witness ==
  /\ Viewed(1)
  /\ Len(SelectSeq(run[1].call.ops, LAMBDA o : o.op = "readdir")) = 2

----------------------------------------------------------------------------
\* Claims on what a command leaves alone (Spec)

\* The entries that differ between the trees f and g.
Changed(f, g) ==
  { q \in DOMAIN f \cup DOMAIN g : (q \in DOMAIN f /\ q \in DOMAIN g) => f[q] # g[q] }

\* The directories above p that the call created.
NewDirsAbove(p) ==
  { q \in DOMAIN fs : IsProperPrefix(q, p.segs) /\ q \notin DOMAIN prior /\ IsDir(fs, q) }

Writes == cmd.command \in {"create", "str_replace", "insert"}

\* A successful create, str_replace or insert changed at most the file at
\* its path and the missing directories above it.
WriteFrame ==
  (Writes /\ res.ok) =>
    /\ Changed(prior, fs) \subseteq {RealOf(cmd.path).segs} \cup NewDirsAbove(RealOf(cmd.path))
    /\ IsFile(fs, RealOf(cmd.path).segs)

\* A successful delete removed its path and everything below it, and
\* nothing else.
DeleteFrame ==
  (cmd.command = "delete" /\ res.ok) =>
    fs = Restrict(Started, DOMAIN Started \ Removed(RealOf(cmd.path)))

\* C24, as stated: a successful mutating command changes only its target;
\* a rename changes only the entries at old_path, at new_path and the
\* missing directories above new_path.
C24_AsStated ==
  /\ WriteFrame
  /\ DeleteFrame
  /\ (cmd.command = "rename" /\ res.ok) =>
       Changed(prior, fs) \subseteq
         {RealOf(cmd.old_path).segs, RealOf(cmd.new_path).segs}
           \cup NewDirsAbove(RealOf(cmd.new_path))

\* C24, amended: the same, where a rename changes only the entries at or
\* below old_path, at or below new_path and the missing directories above
\* new_path, and every entry that was at or below old_path is found
\* unchanged at the same place below new_path.
C24_Frame ==
  /\ WriteFrame
  /\ DeleteFrame
  /\ (cmd.command = "rename" /\ res.ok) =>
       LET old == RealOf(cmd.old_path)
           new == RealOf(cmd.new_path)
       IN /\ \A q \in Changed(prior, fs) :
               \/ IsPrefix(old.segs, q)
               \/ IsPrefix(new.segs, q)
               \/ q \in NewDirsAbove(new)
          /\ \A q \in DOMAIN Started :
               IsPrefix(old.segs, q) =>
                 LET r == new.segs \o Drop(q, Len(old.segs) + 1)
                 IN r \in DOMAIN fs /\ fs[r] = Started[q]

\* A directory that holds a file was renamed to a path that did not exist.
C24_Witness ==
  /\ cmd.command = "rename"
  /\ res.ok
  /\ RealOf(cmd.new_path).segs \notin DOMAIN Started
  /\ \E q \in DOMAIN Started :
       IsProperPrefix(RealOf(cmd.old_path).segs, q) /\ IsFile(Started, q)

\* The call that comes next, with the given command on '/memories'.
NextOnRoot(command) ==
  Call_(fs, [NoParams EXCEPT !.command = command, !.path = V(<<>>)])

\* C25: delete on '/memories' or '/memories/' is accepted and succeeds; it
\* removes the storage root with every stored entry; the call that comes
\* next, whatever its command, starts by making an empty storage root
\* again, and a view of '/memories' then answers 'No files found.'.
C25_RootDelete ==
  (cmd.command = "delete" /\ cmd.path \in {V(<<>>), V(<<"/">>)}) =>
    /\ res.ran
    /\ res.ok
    /\ fs = Rm(Started, MEMORIES_ROOT)
    /\ MEMORIES_ROOT.segs \notin DOMAIN fs
    /\ DOMAIN StoredTree(fs) = {}
    /\ \A command \in {"view", "create", "str_replace", "insert", "delete", "rename"} :
         /\ NextOnRoot(command).ran
         /\ NextOnRoot(command).start = MkdirP(fs, MEMORIES_ROOT)
         /\ IsDir(NextOnRoot(command).start, MEMORIES_ROOT.segs)
         /\ Children(NextOnRoot(command).start, MEMORIES_ROOT.segs) = {}
    /\ NextOnRoot("view").ok
    /\ NextOnRoot("view").out = <<"No files found.">>

\* '/memories/' was deleted while the storage root held a directory with a
\* file in it.
C25_Witness ==
  /\ cmd.command = "delete"
  /\ cmd.path = V(<<"/">>)
  /\ res.ok
  /\ \E q \in DOMAIN StoredTree(Started) : IsFile(Started, q) /\ IsDir(Started, Parent(q))
  /\ Parent(MEMORIES_ROOT.segs) \in DOMAIN fs

----------------------------------------------------------------------------
\* The message of a listing whose directory is not there (SpecSteps)

\* The view in slot p has returned 'Directory is empty or does not exist.'.
SaidEmptyOrMissing(p) ==
  /\ run[p].call.cmd.command = "view"
  /\ run[p].call.pc = "done"
  /\ run[p].call.out.out = <<"Directory is empty or does not exist.">>

\* A view that has returned the message had found its path and had seen a
\* directory there, and another call removed the directory before the
\* listing looked for it.
MessageOnlyWhenLost ==
  \A p \in Slots :
    SaidEmptyOrMissing(p) =>
      /\ run[p].call.lost
      /\ run[p].call.isDir
      /\ OpsOf(p) = <<"access", "stat", "access">>

\* A view that ended at its existence check has failed with not-found.
MissingIsNotFound ==
  \A p \in Slots :
    (/\ run[p].call.cmd.command = "view"
     /\ run[p].call.pc = "done"
     /\ OpsOf(p) = <<"access">>) =>
      /\ ~run[p].call.out.ok
      /\ run[p].call.out.err = "NotFound"

\* The directory of a view is marked lost only by the rm or the rename of
\* another call, while the view stays at its await.
LostOnlyByOther ==
  \A p \in Slots :
    (~run[p].call.lost /\ run'[p].call.lost) =>
      /\ run'[p].call.pc = run[p].call.pc
      /\ \E q \in Slots \ {p} :
           /\ run[q].call.pc \in {"rm", "rename"}
           /\ run'[q].call.pc = "done"

\* C26: view returns 'Directory is empty or does not exist.' only when
\* another call has removed the directory between the existence check of
\* the view and the start of its listing, hence never when one call runs
\* at a time; a path that is not there at the existence check makes view
\* fail with not-found.
C26_OnlyWhenRemoved ==
  /\ [](MessageOnlyWhenLost /\ MissingIsNotFound)
  /\ [][LostOnlyByOther]_vars

\* The view in slot 1 has returned the message after the delete in slot 3
\* removed its directory.
C26_Witness ==
  /\ SaidEmptyOrMissing(1)
  /\ run[3].call.cmd.command = "delete"
  /\ run[3].call.pc = "done"

====
